---------------------------- MODULE Spec2Model ----------------------------
(***************************************************************************)
(* A model of ytm: the connection-bounded listener of src/main.rs with the *)
(* request handler of src/service.rs, the query engine of                  *)
(* src/schema/mod.rs (MetadataTable::get_collection, Pagination::new), the *)
(* loader (load_v1, load_metadata_from_file) and main's startup.           *)
(*                                                                         *)
(* Spec      the listener: main, Listener::run, Listener::accept, the      *)
(*           spawned connection-serving units and ServiceHandler::run.     *)
(* FairSpec  Spec with the fairness of the tokio scheduler (every task     *)
(*           that can make progress is eventually polled).                 *)
(* SpecQuery get_collection applied to bounded tables and filters.         *)
(* SpecLoad  load_v1's loop, event by event, on bounded histories.          *)
(* SpecStartup  main from the file to the first accepted connections.      *)
(***************************************************************************)
EXTENDS Integers, Sequences, FiniteSets, TLC

(***************************************************************************)
(* Bounds of the model.                                                    *)
(***************************************************************************)
\* The size of the permit pool.  src/main.rs:19 sets MAX_CONNECTIONS to 250;
\* the listener is checked with a small pool, and every formula is stated
\* in terms of MAX_CONNECTIONS.
MAX_CONNECTIONS == 2

\* Task slots: one more than the pool, so that a unit beyond the ceiling
\* could exist if the permits did not prevent it.
Units == 1 .. (MAX_CONNECTIONS + 1)

\* The longest table, the largest limit and the largest page of a query.
MaxItems == 6

MaxLimit == 4

MaxPage == MaxItems + 2

\* The longest history load_v1 folds step by step.
MaxEvents == 3

\* The most records in a file at startup.
MaxRecords == 2

VARIABLES
    mainpc,     \* main's position (src/main.rs:117-139)
    lpc,        \* Listener::run's position (src/main.rs:37-83)
    backoff,    \* Listener::accept's local backoff
    delays,     \* the delays slept in the current call of accept (log line 78)
    permits,    \* free permits of limit_connection
    notify,     \* the broadcast sender notify_shutdown: "open" or "closed"
    complete_tx,\* live senders of the shutdown_complete channel
    unit,       \* each task slot's phase
    uend,       \* how each unit's select or task ended
    req,        \* the request a unit is handling in ServiceHandler::run
    holder,     \* the unit holding vault.state's mutex, 0 when free
    poisoned,   \* the mutex' poison flag
    qdata,      \* the table's items (MetadataTable.data)
    qmeta,      \* the table's total_count_raw, total_count and watch_timeline
    qfilter,    \* the last MetadataFilter given to get_collection
    qout,       \* what get_collection returned for qfilter
    loadpc,     \* load_v1's position (src/schema/mod.rs:312-362)
    raw,        \* load_v1's decoded events (line 315)
    folded,     \* how many events the loop of line 320 has consumed
    map,        \* load_v1's HashMap from video id to Metadata
    total_count_raw,  \* load_v1's local of line 317
    watch_timeline,   \* load_v1's local of line 318
    file,       \* the file at config.file (src/main.rs:97)
    starterr    \* the error main returned with during startup, "-" when none

lvars == <<mainpc, lpc, backoff, delays, permits, notify, complete_tx,
           unit, uend, req, holder, poisoned>>
qvars == <<qdata, qmeta, qfilter, qout>>
ldvars == <<loadpc, raw, folded, map, total_count_raw, watch_timeline>>
svars == <<file, starterr>>
vars == <<mainpc, lpc, backoff, delays, permits, notify, complete_tx,
          unit, uend, req, holder, poisoned, qdata, qmeta, qfilter, qout,
          loadpc, raw, folded, map, total_count_raw, watch_timeline,
          file, starterr>>

\* schema/mod.rs:17-30 and 125-132: the defaults of order, page and limit;
\* a request without any field.
NoFilter == [id |-> <<>>, title |-> <<>>, channel_name |-> <<>>,
             from |-> <<>>, to |-> <<>>,
             order |-> "latest", page |-> 1, limit |-> 20]

\* Option: None is the empty sequence, Some(v) the sequence of v alone.
None == <<>>

Some(v) == <<v>>

\* Before the first query.
NoPagination == [current_page |-> 0, prev_page |-> None, next_page |-> None,
                 total_page |-> 0, limit |-> 0, page_range |-> <<>>]

NoOutput == [called |-> FALSE, panicked |-> FALSE, pagination |-> NoPagination, data |-> <<>>]

\* A call that panicked returns nothing.
Panicked == [called |-> TRUE, panicked |-> TRUE, pagination |-> NoPagination, data |-> <<>>]

(***************************************************************************)
(* The listener.                                                           *)
(***************************************************************************)
\* The units that have been spawned and have not ended.
Live == {u \in Units : unit[u] # "none"}

\* The lowest free task slot.
FreeSlot == CHOOSE u \in Units : unit[u] = "none" /\ \A v \in Units : unit[v] = "none" => u <= v

\* The requests a connection can carry: one that run answers, GET / with a
\* query string serde_urlencoded cannot decode (the unwrap of line 60),
\* and GET / with limit=0 matching nothing (get_collection's remainder).
Requests == {"ok", "undecodable", "limit0"}

\* The state after main has built the Listener (src/main.rs:94-115).
InitListener ==
    /\ mainpc = "select"
    /\ lpc = "acquire"
    /\ backoff = 1
    /\ delays = <<>>
    /\ permits = MAX_CONNECTIONS
    /\ notify = "open"
    /\ complete_tx = 1
    /\ unit = [u \in Units |-> "none"]
    /\ uend = [u \in Units |-> "-"]
    /\ req = [u \in Units |-> "-"]
    /\ holder = 0
    /\ poisoned = FALSE

\* The workers poll tasks until the runtime is gone.
RuntimeAlive == mainpc # "exited"

\* main polls server.run() only inside its select.
RunPolled == mainpc = "select"

\* Line 38: acquire_owned().await, then line 39 and the entry of accept
\* (line 65).  Suspended while no permit is free.
Acquire_NoPermit ==
    /\ RunPolled
    /\ lpc = "acquire"
    /\ lpc' = "accept"
    /\ backoff' = 1
    /\ delays' = <<>>
    /\ UNCHANGED <<mainpc, permits, notify, complete_tx, unit, uend, req, holder, poisoned>>

\* An acquire that is woken only when the whole pool is free.
Acquire_LostWakeup ==
    /\ RunPolled
    /\ lpc = "acquire"
    /\ permits = MAX_CONNECTIONS
    /\ permits' = permits - 1
    /\ lpc' = "accept"
    /\ backoff' = 1
    /\ delays' = <<>>
    /\ UNCHANGED <<mainpc, notify, complete_tx, unit, uend, req, holder, poisoned>>

Acquire ==
    /\ RunPolled
    /\ lpc = "acquire"
    /\ permits > 0
    /\ permits' = permits - 1
    /\ lpc' = "accept"
    /\ backoff' = 1
    /\ delays' = <<>>
    /\ UNCHANGED <<mainpc, notify, complete_tx, unit, uend, req, holder, poisoned>>

\* Line 69: accept returned a socket; lines 42-60 spawn the serving unit,
\* which owns the permit, and the loop goes back to line 38.
AcceptOk ==
    /\ RunPolled
    /\ lpc = "accept"
    /\ \E u \in Units : unit[u] = "none"
    /\ unit' = [unit EXCEPT ![FreeSlot] = "serve"]
    /\ lpc' = "acquire"
    /\ UNCHANGED <<mainpc, backoff, delays, permits, notify, complete_tx, uend, req, holder, poisoned>>

\* Line 71: the test that makes a failed accept fatal.
TooManyRetries_Early(b) == b >= 64

TooManyRetries(b) == b > 64

\* Lines 70-79: accept failed and backoff is at most 64: log and sleep.
AcceptRetry ==
    /\ RunPolled
    /\ lpc = "accept"
    /\ ~TooManyRetries(backoff)
    /\ delays' = Append(delays, backoff)
    /\ lpc' = "sleep"
    /\ UNCHANGED <<mainpc, backoff, permits, notify, complete_tx, unit, uend, req, holder, poisoned>>

\* A fatal accept whose permit is not given back.
AcceptFatal_KeepsPermit ==
    /\ RunPolled
    /\ lpc = "accept"
    /\ TooManyRetries(backoff)
    /\ lpc' = "failed"
    /\ mainpc' = "shutdown"
    /\ UNCHANGED <<backoff, delays, permits, notify, complete_tx, unit, uend, req, holder, poisoned>>

\* Lines 71-74, 41 and 118-122: accept failed with backoff above 64; the
\* error leaves accept and run (dropping the loop's permit), and main's
\* select ends with it.
AcceptFatal ==
    /\ RunPolled
    /\ lpc = "accept"
    /\ TooManyRetries(backoff)
    /\ lpc' = "failed"
    /\ permits' = permits + 1
    /\ mainpc' = "shutdown"
    /\ UNCHANGED <<backoff, delays, notify, complete_tx, unit, uend, req, holder, poisoned>>

\* Lines 79-81: the sleep is over, backoff doubles, accept is tried again.
SleepDone ==
    /\ RunPolled
    /\ lpc = "sleep"
    /\ backoff' = backoff * 2
    /\ lpc' = "accept"
    /\ UNCHANGED <<mainpc, delays, permits, notify, complete_tx, unit, uend, req, holder, poisoned>>

\* Whether the accept loop holds a permit of its own (between line 38 and
\* the spawn of line 49).
LoopHoldsPermit == lpc \in {"accept", "sleep"}

\* Lines 123-125: ctrl_c ends main's select; the run future is dropped
\* where it is suspended, and with it the permit the loop holds.
CtrlC ==
    /\ mainpc = "select"
    /\ mainpc' = "shutdown"
    /\ lpc' = "dropped"
    /\ permits' = IF LoopHoldsPermit THEN permits + 1 ELSE permits
    /\ UNCHANGED <<backoff, delays, notify, complete_tx, unit, uend, req, holder, poisoned>>

\* Lines 128-134: the broadcast sender is dropped; the channel closes.
DropNotify ==
    /\ mainpc = "shutdown"
    /\ notify' = "closed"
    /\ mainpc' = "notified"
    /\ UNCHANGED <<lpc, backoff, delays, permits, complete_tx, unit, uend, req, holder, poisoned>>

\* Line 135: main's sender of the completion channel is dropped.  No unit
\* was given a clone of it (lines 44-60).
DropCompleteTx ==
    /\ mainpc = "notified"
    /\ complete_tx' = complete_tx - 1
    /\ mainpc' = "recv"
    /\ UNCHANGED <<lpc, backoff, delays, permits, notify, unit, uend, req, holder, poisoned>>

\* Lines 137-139: recv returns None once every sender is gone; main returns.
RecvComplete ==
    /\ mainpc = "recv"
    /\ complete_tx = 0
    /\ mainpc' = "returned"
    /\ UNCHANGED <<lpc, backoff, delays, permits, notify, complete_tx, unit, uend, req, holder, poisoned>>

\* Line 86: #[tokio::main] drops the runtime after main returned.  The
\* workers finish the poll they are in; tasks suspended in their select are
\* never polled again.
ProcessExit ==
    /\ mainpc = "returned"
    /\ \A u \in Units : unit[u] \in {"none", "serve"}
    /\ mainpc' = "exited"
    /\ UNCHANGED <<lpc, backoff, delays, permits, notify, complete_tx, unit, uend, req, holder, poisoned>>

(***************************************************************************)
(* A connection-serving unit: the task spawned at src/main.rs:49-60, and   *)
(* the requests hyper hands to ServiceHandler::call while it polls the     *)
(* connection.                                                             *)
(***************************************************************************)
\* Shutdown::recv (the shutdown module) resolves once the broadcast channel
\* has been closed.
ShutdownRecvReady == notify = "closed"

\* service.rs:118-119 and 50: a request arrived on the connection; hyper
\* calls ServiceHandler::call, which calls run.
Request(u, r) ==
    /\ RuntimeAlive
    /\ unit[u] = "serve"
    /\ unit' = [unit EXCEPT ![u] = "call"]
    /\ req' = [req EXCEPT ![u] = r]
    /\ UNCHANGED <<mainpc, lpc, backoff, delays, permits, notify, complete_tx, uend, holder, poisoned>>

\* service.rs:51: vault.state.lock().unwrap().  The thread blocks while
\* another unit holds the mutex; a poisoned mutex makes lock return Err,
\* and unwrap panics (the guard inside the error is dropped at once).
Lock_NoMutex(u) ==
    /\ RuntimeAlive
    /\ unit[u] = "call"
    /\ IF poisoned
       THEN /\ unit' = [unit EXCEPT ![u] = "panicked"]
            /\ uend' = [uend EXCEPT ![u] = "poisoned"]
            /\ UNCHANGED holder
       ELSE /\ unit' = [unit EXCEPT ![u] = "run"]
            /\ holder' = u
            /\ UNCHANGED uend
    /\ UNCHANGED <<mainpc, lpc, backoff, delays, permits, notify, complete_tx, req, poisoned>>

Lock(u) ==
    /\ RuntimeAlive
    /\ unit[u] = "call"
    /\ holder = 0
    /\ IF poisoned
       THEN /\ unit' = [unit EXCEPT ![u] = "panicked"]
            /\ uend' = [uend EXCEPT ![u] = "poisoned"]
            /\ UNCHANGED holder
       ELSE /\ unit' = [unit EXCEPT ![u] = "run"]
            /\ holder' = u
            /\ UNCHANGED uend
    /\ UNCHANGED <<mainpc, lpc, backoff, delays, permits, notify, complete_tx, req, poisoned>>

\* service.rs:55-108 and 119-121: run computes the response and returns;
\* the guard is dropped at run's end, before call boxes the future.
RunOk(u) ==
    /\ RuntimeAlive
    /\ unit[u] = "run"
    /\ req[u] = "ok"
    /\ holder' = 0
    /\ unit' = [unit EXCEPT ![u] = "serve"]
    /\ req' = [req EXCEPT ![u] = "-"]
    /\ UNCHANGED <<mainpc, lpc, backoff, delays, permits, notify, complete_tx, uend, poisoned>>

\* service.rs:60-61: from_str(query).unwrap() panics on a query string
\* that does not decode, and get_collection panics on limit=0 with nothing
\* matched; the guard is dropped by the unwinding, which poisons the mutex.
RunPanic(u) ==
    /\ RuntimeAlive
    /\ unit[u] = "run"
    /\ req[u] \in {"undecodable", "limit0"}
    /\ holder' = 0
    /\ poisoned' = TRUE
    /\ unit' = [unit EXCEPT ![u] = "panicked"]
    /\ uend' = [uend EXCEPT ![u] = "own"]
    /\ req' = [req EXCEPT ![u] = "-"]
    /\ UNCHANGED <<mainpc, lpc, backoff, delays, permits, notify, complete_tx>>

\* main.rs:51-55: the exchange ended, with Ok or with a transport error
\* that is logged.
ConnDone(u, res) ==
    /\ RuntimeAlive
    /\ unit[u] = "serve"
    /\ unit' = [unit EXCEPT ![u] = "resolved"]
    /\ uend' = [uend EXCEPT ![u] = res]
    /\ UNCHANGED <<mainpc, lpc, backoff, delays, permits, notify, complete_tx, req, holder, poisoned>>

\* main.rs:56: the select's shutdown branch.
Cancel(u) ==
    /\ RuntimeAlive
    /\ unit[u] = "serve"
    /\ ShutdownRecvReady
    /\ unit' = [unit EXCEPT ![u] = "resolved"]
    /\ uend' = [uend EXCEPT ![u] = "cancel"]
    /\ UNCHANGED <<mainpc, lpc, backoff, delays, permits, notify, complete_tx, req, holder, poisoned>>

\* main.rs:59: drop(permit); the task ends.
DropPermit_Leak(u) ==
    /\ RuntimeAlive
    /\ unit[u] = "resolved"
    /\ unit' = [unit EXCEPT ![u] = "none"]
    /\ uend' = [uend EXCEPT ![u] = "-"]
    /\ permits' = IF uend[u] = "err" THEN permits ELSE permits + 1
    /\ UNCHANGED <<mainpc, lpc, backoff, delays, notify, complete_tx, req, holder, poisoned>>

DropPermit(u) ==
    /\ RuntimeAlive
    /\ unit[u] = "resolved"
    /\ unit' = [unit EXCEPT ![u] = "none"]
    /\ uend' = [uend EXCEPT ![u] = "-"]
    /\ permits' = permits + 1
    /\ UNCHANGED <<mainpc, lpc, backoff, delays, notify, complete_tx, req, holder, poisoned>>

\* main.rs:49: a panic inside the task is caught by the runtime, which
\* drops the task's future and so the permit it owns.
Unwind(u) ==
    /\ RuntimeAlive
    /\ unit[u] = "panicked"
    /\ unit' = [unit EXCEPT ![u] = "none"]
    /\ uend' = [uend EXCEPT ![u] = "-"]
    /\ req' = [req EXCEPT ![u] = "-"]
    /\ permits' = permits + 1
    /\ UNCHANGED <<mainpc, lpc, backoff, delays, notify, complete_tx, holder, poisoned>>

ListenerStep ==
    \/ Acquire
    \/ AcceptOk
    \/ AcceptRetry
    \/ AcceptFatal
    \/ SleepDone

MainStep ==
    \/ CtrlC
    \/ DropNotify
    \/ DropCompleteTx
    \/ RecvComplete
    \/ ProcessExit

UnitStep(u) ==
    \/ \E r \in Requests : Request(u, r)
    \/ Lock(u)
    \/ RunOk(u)
    \/ RunPanic(u)
    \/ \E res \in {"ok", "err"} : ConnDone(u, res)
    \/ Cancel(u)
    \/ DropPermit(u)
    \/ Unwind(u)

(***************************************************************************)
(* The query engine: src/schema/mod.rs.                                    *)
(***************************************************************************)
Min(a, b) == IF a < b THEN a ELSE b

Max(a, b) == IF a > b THEN a ELSE b

\* usize::saturating_sub.
SatSub(a, b) == IF a > b THEN a - b ELSE 0

\* usize::MAX.  It stands for 2^64 - 1, which the model checker's integers
\* cannot hold; it is only compared with, never computed with.
USIZE_MAX == 2 ^ 30 + (2 ^ 30 - 1)

\* Vec::reverse.
Reverse(s) == [i \in 1 .. Len(s) |-> s[Len(s) + 1 - i]]

\* Strings are sequences of characters; str::to_lowercase.
LowerChar(c) ==
    CASE c = "A" -> "a"
      [] c = "B" -> "b"
      [] OTHER -> c

ToLowercase(s) == [i \in 1 .. Len(s) |-> LowerChar(s[i])]

\* str::contains.
Contains(hay, needle) ==
    \E i \in 0 .. (Len(hay) - Len(needle)) : SubSeq(hay, i + 1, i + Len(needle)) = needle

\* MetadataFilter::skip, lines 137-143.
Skip(f) ==
    /\ f.id = None
    /\ f.title = None
    /\ f.channel_name = None
    /\ f.from = None
    /\ f.to = None

\* A closure in which a predicate that is absent rejects the item.
Matches_AbsentRejects(x, f) ==
    IF Skip(f) THEN TRUE
    ELSE /\ f.id # None /\ x.id = f.id[1]
         /\ f.title # None /\ Contains(ToLowercase(x.title), ToLowercase(f.title[1]))
         /\ f.channel_name # None
         /\ Contains(ToLowercase(x.channel.name), ToLowercase(f.channel_name[1]))
         /\ f.from # None /\ x.watched_at > f.from[1]
         /\ f.to # None /\ x.watched_at < f.to[1]

\* A closure whose from and to bounds let an item at the bound through.
Matches_InclusiveBounds(x, f) ==
    IF Skip(f) THEN TRUE
    ELSE /\ f.id # None => x.id = f.id[1]
         /\ f.title # None => Contains(ToLowercase(x.title), ToLowercase(f.title[1]))
         /\ f.channel_name # None =>
                Contains(ToLowercase(x.channel.name), ToLowercase(f.channel_name[1]))
         /\ f.from # None => x.watched_at >= f.from[1]
         /\ f.to # None => x.watched_at <= f.to[1]

\* The closure of lines 172-208.
Matches(x, f) ==
    IF Skip(f) THEN TRUE
    ELSE LET id == IF f.id # None THEN x.id = f.id[1] ELSE TRUE
             title == IF f.title # None
                      THEN Contains(ToLowercase(x.title), ToLowercase(f.title[1]))
                      ELSE TRUE
             channel_name == IF f.channel_name # None
                             THEN Contains(ToLowercase(x.channel.name), ToLowercase(f.channel_name[1]))
                             ELSE TRUE
             from == IF f.from # None THEN x.watched_at > f.from[1] ELSE TRUE
             to == IF f.to # None THEN x.watched_at < f.to[1] ELSE TRUE
         IN  id /\ title /\ channel_name /\ from /\ to

\* Lines 169-210: the matching items, cloned, in the table's order.
Filtered(data, f) == SelectSeq(data, LAMBDA x : Matches(x, f))

\* Vec::sort_by_key(|v| v.watch_count): a stable ascending sort, here by
\* insertion of each element after the last one whose key is not greater.
RECURSIVE InsertByCount(_, _)
InsertByCount(s, x) ==
    IF s = <<>> THEN <<x>>
    ELSE IF s[Len(s)].watch_count <= x.watch_count
         THEN Append(s, x)
         ELSE Append(InsertByCount(SubSeq(s, 1, Len(s) - 1), x), s[Len(s)])

RECURSIVE SortByWatchCount(_)
SortByWatchCount(s) ==
    IF s = <<>> THEN <<>>
    ELSE InsertByCount(SortByWatchCount(SubSeq(s, 1, Len(s) - 1)), s[Len(s)])

\* An ordering whose MostWatched is a direct stable descending sort.
Ordered_DirectDescending(s, order) ==
    CASE order = "oldest" -> Reverse(s)
      [] order = "most_watched" -> Reverse(SortByWatchCount(Reverse(s)))
      [] order = "least_watched" -> SortByWatchCount(s)
      [] OTHER -> s

\* Lines 212-224.
Ordered(s, order) ==
    CASE order = "oldest" -> Reverse(s)
      [] order = "most_watched" -> Reverse(SortByWatchCount(s))
      [] order = "least_watched" -> SortByWatchCount(s)
      [] OTHER -> s

\* Line 227: (total_item as f64 / limit as f64).ceil() as usize.  0.0/0.0
\* is NaN, which casts to 0; x/0.0 is infinite, which casts to usize::MAX.
TotalPage(total_item, limit) ==
    IF limit = 0
    THEN IF total_item = 0 THEN 0 ELSE USIZE_MAX
    ELSE (total_item + limit - 1) \div limit

\* An upper bound that is not cut at the length.
RightBound_NotCut(page_offset, total_item) == page_offset

\* Line 232.
RightBound(page_offset, total_item) == Min(page_offset, total_item)

\* Lines 234-238.  The remainder of line 237 panics when limit is 0.
LeftPanics(page_offset, limit_offset, total_item) ==
    ~(page_offset < total_item) /\ limit_offset = 0

LeftBound(page_offset, limit_offset, total_item) ==
    IF page_offset < total_item
    THEN SatSub(page_offset, limit_offset)
    ELSE Max(total_item - (total_item % limit_offset), 0)

\* Vec::drain(start..) and Vec::drain(..end) panic on a bound past the end.
DrainPanics(s, bound) == bound > Len(s)

DrainFrom(s, start) == SubSeq(s, 1, start)

DrainTo(s, end) == SubSeq(s, end + 1, Len(s))

\* A window that is cut at total_page and not shifted left.
PaginationNew_Unshifted(current_page, total_page, limit) ==
    LET s0 == Max(SatSub(current_page, 2), 1)
        e0 == Max(current_page + 2, 5)
        start == IF total_page <= 5 THEN 1 ELSE s0
        end == IF total_page <= 5 THEN total_page ELSE Min(e0, total_page)
    IN  [current_page |-> current_page,
         prev_page |-> IF current_page > 1 THEN Some(current_page - 1) ELSE None,
         next_page |-> IF current_page < total_page THEN Some(current_page + 1) ELSE None,
         total_page |-> total_page,
         limit |-> limit,
         page_range |-> IF start > end THEN <<>>
                        ELSE [i \in 1 .. (end - start + 1) |-> start + i - 1]]

\* Pagination::new, lines 44-85.
PaginationNew(current_page, total_page, limit) ==
    LET prev_page == IF current_page > 1 THEN Some(current_page - 1) ELSE None
        next_page == IF current_page < total_page THEN Some(current_page + 1) ELSE None
        min == 1
        max == total_page
        s0 == Max(SatSub(current_page, 2), min)
        e0 == Max(current_page + 2, 5)
        start == IF max <= 5 THEN min
                 ELSE IF e0 > max THEN Max(SatSub(s0, e0 - max), min) ELSE s0
        end == IF max <= 5 THEN max
               ELSE IF e0 > max THEN max ELSE e0
    IN  [current_page |-> current_page,
         prev_page |-> prev_page,
         next_page |-> next_page,
         total_page |-> total_page,
         limit |-> limit,
         page_range |-> IF start > end THEN <<>>
                        ELSE [i \in 1 .. (end - start + 1) |-> start + i - 1]]

\* A get_collection that filters and orders self.data in place.
TableAfterGetCollection_InPlace(data, filter) == Ordered(Filtered(data, filter), filter.order)

\* What get_collection leaves in self.data: lines 169-210 only iterate over
\* it and clone the matching items; the sorts and drains of lines 212-241
\* work on the clone.
TableAfterGetCollection(data, filter) == data

\* MetadataTable::get_collection, lines 168-247.  page * limit stays far
\* below usize::MAX for the pages and limits of the model.
GetCollection(data, filter) ==
    LET filtered == Ordered(Filtered(data, filter), filter.order)
        total_item == Len(filtered)
        total_page == TotalPage(total_item, filter.limit)
        page_offset == filter.page * filter.limit
        limit_offset == filter.limit
        right == RightBound(page_offset, total_item)
    IN  IF LeftPanics(page_offset, limit_offset, total_item)
        THEN Panicked
        ELSE LET left == LeftBound(page_offset, limit_offset, total_item)
                 kept == DrainFrom(filtered, right)
             IN  IF DrainPanics(filtered, right) \/ DrainPanics(kept, left)
                 THEN Panicked
                 ELSE [called |-> TRUE,
                       panicked |-> FALSE,
                       pagination |-> PaginationNew(filter.page, total_page, filter.limit),
                       data |-> DrainTo(kept, left)]

(***************************************************************************)
(* The loader: load_v1 of src/schema/mod.rs.                               *)
(***************************************************************************)
\* Insertion of a timestamp into an ascending sequence.
RECURSIVE InsertTime(_, _)
InsertTime(s, t) ==
    IF s = <<>> THEN <<t>>
    ELSE IF s[Len(s)] <= t
         THEN Append(s, t)
         ELSE Append(InsertTime(SubSeq(s, 1, Len(s) - 1), t), s[Len(s)])

\* A sort that leaves the sequence as it is.
SortTimes_Noop(s) == s

\* Vec::sort on timestamps, lines 333 and 354.
RECURSIVE SortTimes(_)
SortTimes(s) ==
    IF s = <<>> THEN <<>>
    ELSE InsertTime(SortTimes(SubSeq(s, 1, Len(s) - 1)), s[Len(s)])

\* HashMap::insert of a key the map does not hold yet.
MapInsert(m, k, v) == [x \in (DOMAIN m) \cup {k} |-> IF x = k THEN v ELSE m[x]]

\* A repeated event that is not counted.
FoldSeen_NotCounted(m, r) ==
    [m EXCEPT !.watched_at = IF r.time < m.watched_at THEN r.time ELSE m.watched_at,
              !.watch_timeline = SortTimes(Append(m.watch_timeline, r.time))]

\* Lines 325-334: an event of a video the map already holds.
FoldSeen(m, r) ==
    [m EXCEPT !.watched_at = IF r.time < m.watched_at THEN r.time ELSE m.watched_at,
              !.watch_count = m.watch_count + 1,
              !.watch_timeline = SortTimes(Append(m.watch_timeline, r.time))]

\* Lines 336-347: the first event of a video.
FoldNew(r) ==
    [id |-> r.id,
     title |-> r.title,
     channel |-> r.channel,
     watched_at |-> r.time,
     watch_count |-> 1,
     watch_timeline |-> <<r.time>>]

\* Lines 320-350: the body of the loop, on load_v1's three locals.
FoldEvent(acc, r) ==
    [total_count_raw |-> acc.total_count_raw + 1,
     watch_timeline |-> Append(acc.watch_timeline, r.time),
     map |-> IF r.id \in DOMAIN acc.map
             THEN [acc.map EXCEPT ![r.id] = FoldSeen(acc.map[r.id], r)]
             ELSE MapInsert(acc.map, r.id, FoldNew(r))]

\* Lines 317-319: the locals before the loop.
EmptyAcc == [total_count_raw |-> 0, watch_timeline |-> <<>>, map |-> <<>>]

\* The items in every order: the HashMap's order left as it is.
RECURSIVE DescendingOrders_Unsorted(_)
DescendingOrders_Unsorted(items) ==
    IF items = {} THEN {<<>>}
    ELSE UNION {{<<x>> \o rest : rest \in DescendingOrders_Unsorted(items \ {x})} : x \in items}

\* Lines 352-353: map.into_values() yields the items in the HashMap's
\* arbitrary order and the stable sort_by puts them descending by
\* watched_at, so the result is any order of the items in which watched_at
\* never increases; items with equal watched_at can come in either order.
RECURSIVE DescendingOrders(_)
DescendingOrders(items) ==
    IF items = {} THEN {<<>>}
    ELSE LET top == {x \in items : \A y \in items : y.watched_at <= x.watched_at}
         IN  UNION {{<<x>> \o rest : rest \in DescendingOrders(items \ {x})} : x \in top}

\* Lines 352-361: the tables load_v1 can return for the locals after the
\* loop.
TablesOf(acc) ==
    {[total_count_raw |-> acc.total_count_raw,
      total_count |-> Len(data),
      watch_timeline |-> SortTimes(acc.watch_timeline),
      data |-> data] :
        data \in DescendingOrders({acc.map[k] : k \in DOMAIN acc.map})}

\* Lines 320-350: the whole loop.
RECURSIVE FoldAll(_, _)
FoldAll(acc, events) ==
    IF events = <<>> THEN acc
    ELSE FoldAll(FoldEvent(acc, Head(events)), Tail(events))

\* load_v1 on decoded events, lines 317-361.
LoadV1(events) == TablesOf(FoldAll(EmptyAcc, events))

\* Before load_v1 has returned there is no table.
NoMeta == [total_count_raw |-> 0, total_count |-> 0, watch_timeline |-> <<>>]

\* load_v1 is not running.
LoadIdle ==
    /\ loadpc = "idle"
    /\ raw = <<>>
    /\ folded = 0
    /\ map = <<>>
    /\ total_count_raw = 0
    /\ watch_timeline = <<>>

(***************************************************************************)
(* The file: load_metadata_from_file of src/schema/mod.rs.                 *)
(***************************************************************************)
\* schema/mod.rs:296-306: the marker keys of the v1 structure.
V1Keys == {"header", "title", "titleUrl", "subtitles", "name", "url", "time", "products"}

\* utils.rs:8-19.
IsJsonFile(f) == f.is_file /\ f.extension = "json"

\* utils.rs:22-40: the lines are read in turn, each key a line contains is
\* added to the found ones, and the answer is true as soon as every key is
\* found, false at the end of the file.  A line is the set of the marker
\* keys in its text.
RECURSIVE IsBufferContainsKeywords(_, _, _)
IsBufferContainsKeywords(lines, keys, found_keys) ==
    IF lines = <<>> THEN FALSE
    ELSE LET found == found_keys \cup (keys \cap Head(lines))
         IN  IF Cardinality(found) = Cardinality(keys) THEN TRUE
             ELSE IsBufferContainsKeywords(Tail(lines), keys, found)

\* schema/mod.rs:295-309.
IsV1(lines) == IsBufferContainsKeywords(lines, V1Keys, {})

\* The text of the file, a line per record.
FileLines(f) == [k \in 1 .. Len(f.records) |-> f.records[k].keys]

\* schema/v1.rs:7-20: titleUrl, title and subtitles have defaults; time has
\* none, and a record whose time is not a timestamp does not decode.
DecodeRecord(rec) ==
    IF rec.time = None THEN None
    ELSE Some([id |-> rec.id, title |-> rec.title, channel |-> rec.channel,
               time |-> rec.time[1]])

\* A decoder that leaves out the records that do not decode.
DecodeAll_SkipsMalformed(records) ==
    LET good == SelectSeq(records, LAMBDA rec : DecodeRecord(rec) # None)
    IN  Some([k \in 1 .. Len(good) |-> DecodeRecord(good[k])[1]])

\* schema/mod.rs:315: serde_json::from_reader decodes the whole array or
\* fails.
DecodeAll(records) ==
    IF \E k \in 1 .. Len(records) : DecodeRecord(records[k]) = None THEN None
    ELSE Some([k \in 1 .. Len(records) |-> DecodeRecord(records[k])[1]])

NoTable == [total_count_raw |-> 0, total_count |-> 0, watch_timeline |-> <<>>, data |-> <<>>]

Err(e) == [ok |-> FALSE, err |-> e, table |-> NoTable]

Ok(t) == [ok |-> TRUE, err |-> "-", table |-> t]

\* schema/mod.rs:365-383: the results load_metadata_from_file can return.
LoadMetadataFromFile(f) ==
    IF ~IsJsonFile(f) THEN {Err("unsupported file format")}
    ELSE IF ~f.openable THEN {Err("open")}
    ELSE IF IsV1(FileLines(f))
         THEN LET decoded == DecodeAll(f.records)
              IN  IF decoded = None THEN {Err("decode")}
                  ELSE {Ok(t) : t \in LoadV1(decoded[1])}
         ELSE {Err("unrecognized JSON structure")}

\* A well-formed file that holds the given events.
FileOf(events) ==
    [is_file |-> TRUE, extension |-> "json", openable |-> TRUE,
     records |-> [k \in 1 .. Len(events) |->
                     [keys |-> V1Keys, id |-> events[k].id, title |-> events[k].title,
                      channel |-> events[k].channel, time |-> Some(events[k].time)]]]

(***************************************************************************)
(* Tables and requests of the query specification.                         *)
(***************************************************************************)
Titles == << <<"A", "b">>, <<"b", "a">>, <<"B">> >>

ChannelNames == << <<"a">>, <<"A", "B">> >>

\* The i-th item of a table of n items.  The table is stored descending by
\* watched_at (line 353); two neighbours out of three share a timestamp.
TableItem(i, n) ==
    LET t == 2 * ((n - i) \div 2) + 1
    IN  [id |-> i,
         title |-> Titles[(i % 3) + 1],
         channel |-> [id |-> (i % 2) + 1, name |-> ChannelNames[(i % 2) + 1]],
         watched_at |-> t,
         watch_count |-> ((i * i) % 3) + 1,
         watch_timeline |-> [k \in 1 .. (((i * i) % 3) + 1) |-> t + k - 1]]

Table(n) == [i \in 1 .. n |-> TableItem(i, n)]

\* The events of one item, oldest first.
EventsOf(item) ==
    [k \in 1 .. item.watch_count |->
        [id |-> item.id, title |-> item.title, channel |-> item.channel,
         time |-> item.watch_timeline[k]]]

\* A history whose videos are the items of Table(n).
RECURSIVE HistoryOf(_, _)
HistoryOf(n, i) ==
    IF i > n THEN <<>>
    ELSE EventsOf(TableItem(i, n)) \o HistoryOf(n, i + 1)

\* The tables load_v1 builds from these histories.  A file that passes
\* is_v1 holds at least one record, so no table is empty.
Tables == UNION {LoadV1(HistoryOf(n, 1)) : n \in 1 .. MaxItems}

\* The file a table was loaded from: one record per counted event.
FileOfTable(t) == FileOf(HistoryOf(Len(t.data), 1))

Orders == {"latest", "oldest", "most_watched", "least_watched"}

\* Requests that page through a table, unfiltered or cut by a lower bound.
PagingFilters ==
    {[NoFilter EXCEPT !.from = fr, !.order = o, !.page = pg, !.limit = lm] :
        fr \in {None, Some(2), Some(MaxItems + 1)}, o \in Orders,
        pg \in 0 .. MaxPage, lm \in 0 .. MaxLimit}

\* Requests with every combination of predicates, on the default page.
PredicateFilters ==
    {[NoFilter EXCEPT !.id = i, !.title = t, !.channel_name = c, !.from = fr, !.to = to] :
        i \in {None, Some(1), Some(2)},
        t \in {None, Some(<<"b">>), Some(<<"A", "B">>)},
        c \in {None, Some(<<"a">>), Some(<<"b">>)},
        fr \in {None, Some(1), Some(3)},
        to \in {None, Some(3), Some(5)}}

Filters == PagingFilters \cup PredicateFilters

(***************************************************************************)
(* The specifications.                                                     *)
(***************************************************************************)
\* The table the listener serves: the one load_v1 builds from the history
\* of a single video.
ListenerTable == CHOOSE t \in LoadV1(HistoryOf(1, 1)) : TRUE

Init ==
    /\ InitListener
    /\ LoadIdle
    /\ file = FileOf(HistoryOf(1, 1))
    /\ starterr = "-"
    /\ qdata = ListenerTable.data
    /\ qmeta = [total_count_raw |-> ListenerTable.total_count_raw,
                total_count |-> ListenerTable.total_count,
                watch_timeline |-> ListenerTable.watch_timeline]
    /\ qfilter = NoFilter
    /\ qout = NoOutput

Next ==
    /\ \/ ListenerStep
       \/ MainStep
       \/ \E u \in Units : UnitStep(u)
    /\ UNCHANGED <<qvars, ldvars, svars>>

Spec == Init /\ [][Next]_vars

\* The scheduler polls every task that can make progress; what the clients
\* and the operator do (a request, a closed connection, an accept result,
\* ctrl_c) is not forced.  A unit's select polls its shutdown branch each
\* time the connection has nothing more to do, so a cancellation that is
\* ready again and again is taken (strong fairness).
FairSpec ==
    /\ Spec
    /\ WF_vars(Acquire /\ UNCHANGED <<qvars, ldvars, svars>>)
    /\ WF_vars(SleepDone /\ UNCHANGED <<qvars, ldvars, svars>>)
    /\ WF_vars(DropNotify /\ UNCHANGED <<qvars, ldvars, svars>>)
    /\ WF_vars(DropCompleteTx /\ UNCHANGED <<qvars, ldvars, svars>>)
    /\ WF_vars(RecvComplete /\ UNCHANGED <<qvars, ldvars, svars>>)
    /\ WF_vars(ProcessExit /\ UNCHANGED <<qvars, ldvars, svars>>)
    /\ \A u \in Units :
          /\ WF_vars(Lock(u) /\ UNCHANGED <<qvars, ldvars, svars>>)
          /\ WF_vars((RunOk(u) \/ RunPanic(u)) /\ UNCHANGED <<qvars, ldvars, svars>>)
          /\ SF_vars(Cancel(u) /\ UNCHANGED <<qvars, ldvars, svars>>)
          /\ WF_vars((DropPermit(u) \/ Unwind(u)) /\ UNCHANGED <<qvars, ldvars, svars>>)

InitQuery ==
    /\ InitListener
    /\ LoadIdle
    /\ starterr = "-"
    /\ \E t \in Tables :
          /\ file = FileOfTable(t)
          /\ qdata = t.data
          /\ qmeta = [total_count_raw |-> t.total_count_raw,
                      total_count |-> t.total_count,
                      watch_timeline |-> t.watch_timeline]
    /\ qfilter = NoFilter
    /\ qout = NoOutput

\* service.rs:58-61: one request's filter is decoded and handed to
\* get_collection.
Query(f) ==
    /\ ~qout.called
    /\ qfilter' = f
    /\ qout' = GetCollection(qdata, f)
    /\ qdata' = TableAfterGetCollection(qdata, f)
    /\ UNCHANGED qmeta
    /\ UNCHANGED <<lvars, ldvars, svars>>

\* service.rs:63-75: the response is rendered and returned; the request's
\* filter, pagination and items are dropped.
Respond ==
    /\ qout.called
    /\ qfilter' = NoFilter
    /\ qout' = NoOutput
    /\ UNCHANGED <<qdata, qmeta>>
    /\ UNCHANGED <<lvars, ldvars, svars>>

NextQuery ==
    \/ \E f \in Filters : Query(f)
    \/ Respond

SpecQuery == InitQuery /\ [][NextQuery]_vars

(***************************************************************************)
(* Histories of the load specification.                                    *)
(***************************************************************************)
\* schema/v1.rs:7-20: a decoded record: the video id of titleUrl, the
\* title, the first channel of subtitles, and the time.  A video's title
\* differs between its events.
RawEvent(i, t) ==
    [id |-> i,
     title |-> Titles[((i + t) % 3) + 1],
     channel |-> [id |-> (i % 2) + 1, name |-> ChannelNames[(i % 2) + 1]],
     time |-> t]

RawEvents == {RawEvent(i, t) : i \in 1 .. (MaxEvents - 1), t \in 1 .. MaxEvents}

RECURSIVE SeqsUpTo(_, _)
SeqsUpTo(S, n) ==
    IF n = 0 THEN {<<>>}
    ELSE LET shorter == SeqsUpTo(S, n - 1)
         IN  shorter \cup {Append(s, x) : s \in {q \in shorter : Len(q) = n - 1}, x \in S}

Histories == SeqsUpTo(RawEvents, MaxEvents)

\* Line 315 has decoded the file; lines 317-319 have set up the locals.
InitLoad ==
    /\ InitListener
    /\ qdata = <<>>
    /\ qmeta = NoMeta
    /\ qfilter = NoFilter
    /\ qout = NoOutput
    /\ loadpc = "fold"
    /\ raw \in Histories
    /\ file = FileOf(raw)
    /\ starterr = "-"
    /\ folded = 0
    /\ map = <<>>
    /\ total_count_raw = 0
    /\ watch_timeline = <<>>

\* One iteration of the loop of lines 320-350.
Fold ==
    /\ loadpc = "fold"
    /\ folded < Len(raw)
    /\ LET acc == FoldEvent([total_count_raw |-> total_count_raw,
                             watch_timeline |-> watch_timeline,
                             map |-> map], raw[folded + 1])
       IN  /\ total_count_raw' = acc.total_count_raw
           /\ watch_timeline' = acc.watch_timeline
           /\ map' = acc.map
    /\ folded' = folded + 1
    /\ UNCHANGED <<loadpc, raw, qvars, lvars, svars>>

\* Lines 352-361: the loop is over and the table is returned.
Finish ==
    /\ loadpc = "fold"
    /\ folded = Len(raw)
    /\ \E t \in TablesOf([total_count_raw |-> total_count_raw,
                          watch_timeline |-> watch_timeline,
                          map |-> map]) :
          /\ qdata' = t.data
          /\ qmeta' = [total_count_raw |-> t.total_count_raw,
                       total_count |-> t.total_count,
                       watch_timeline |-> t.watch_timeline]
    /\ loadpc' = "done"
    /\ UNCHANGED <<raw, folded, map, total_count_raw, watch_timeline, qfilter, qout, lvars, svars>>

NextLoad ==
    \/ Fold
    \/ Finish

SpecLoad == InitLoad /\ [][NextLoad]_vars

(***************************************************************************)
(* Files of the startup specification.                                     *)
(***************************************************************************)
\* The marker keys in a record's text: all of them, or all but subtitles.
KeySets == {V1Keys, V1Keys \ {"subtitles"}}

\* The records of a file: well-formed ones, and one whose time is not a
\* timestamp.
FileRecords ==
    {[keys |-> ks, id |-> i, title |-> RawEvent(i, t).title,
      channel |-> RawEvent(i, t).channel, time |-> Some(t)] :
        ks \in KeySets, i \in 1 .. MaxRecords, t \in {1, 2}}
    \cup {[keys |-> V1Keys, id |-> 1, title |-> RawEvent(1, 1).title,
           channel |-> RawEvent(1, 1).channel, time |-> None]}

Files ==
    {[is_file |-> isf, extension |-> ext, openable |-> opn, records |-> recs] :
        isf \in BOOLEAN, ext \in {"json", "txt"}, opn \in BOOLEAN,
        recs \in SeqsUpTo(FileRecords, MaxRecords)}

\* src/main.rs:87-100: main has made the two channels and parsed the
\* arguments; there is no table and no Listener.
InitStartup ==
    /\ mainpc = "load"
    /\ lpc = "none"
    /\ backoff = 1
    /\ delays = <<>>
    /\ permits = 0
    /\ notify = "open"
    /\ complete_tx = 1
    /\ unit = [u \in Units |-> "none"]
    /\ uend = [u \in Units |-> "-"]
    /\ req = [u \in Units |-> "-"]
    /\ holder = 0
    /\ poisoned = FALSE
    /\ LoadIdle
    /\ qdata = <<>>
    /\ qmeta = NoMeta
    /\ qfilter = NoFilter
    /\ qout = NoOutput
    /\ file \in Files
    /\ starterr = "-"

\* src/main.rs:101: load_metadata_from_file(&config.file)?.
LoadMetadata ==
    /\ mainpc = "load"
    /\ \E res \in LoadMetadataFromFile(file) :
          IF res.ok
          THEN /\ qdata' = res.table.data
               /\ qmeta' = [total_count_raw |-> res.table.total_count_raw,
                            total_count |-> res.table.total_count,
                            watch_timeline |-> res.table.watch_timeline]
               /\ mainpc' = "youtube"
               /\ UNCHANGED starterr
          ELSE /\ mainpc' = "aborted"
               /\ starterr' = res.err
               /\ UNCHANGED <<qdata, qmeta>>
    /\ UNCHANGED <<lpc, backoff, delays, permits, notify, complete_tx,
                   unit, uend, req, holder, poisoned, qfilter, qout, ldvars, file>>

\* src/main.rs:102: load_youtube_components().await?; the fetch succeeds,
\* or fails or panics (youtube.rs:22-56).
LoadYoutube(ok) ==
    /\ mainpc = "youtube"
    /\ IF ok
       THEN mainpc' = "bind" /\ UNCHANGED starterr
       ELSE mainpc' = "aborted" /\ starterr' = "youtube"
    /\ UNCHANGED <<lpc, backoff, delays, permits, notify, complete_tx,
                   unit, uend, req, holder, poisoned, qvars, ldvars, file>>

\* src/main.rs:104-115: TcpListener::bind(addr).await?, then the Listener
\* is built with the table in its vault and main enters its select.
Bind(ok) ==
    /\ mainpc = "bind"
    /\ IF ok
       THEN /\ mainpc' = "select"
            /\ lpc' = "acquire"
            /\ permits' = MAX_CONNECTIONS
            /\ UNCHANGED starterr
       ELSE /\ mainpc' = "aborted"
            /\ starterr' = "bind"
            /\ UNCHANGED <<lpc, permits>>
    /\ UNCHANGED <<backoff, delays, notify, complete_tx,
                   unit, uend, req, holder, poisoned, qvars, ldvars, file>>

NextStartup ==
    \/ LoadMetadata
    \/ \E ok \in BOOLEAN : LoadYoutube(ok)
    \/ \E ok \in BOOLEAN : Bind(ok)
    \/ Acquire /\ UNCHANGED <<qvars, ldvars, svars>>
    \/ AcceptOk /\ UNCHANGED <<qvars, ldvars, svars>>

SpecStartup == InitStartup /\ [][NextStartup]_vars

(***************************************************************************)
(* The listener's claims.                                                  *)
(***************************************************************************)
\* C1: the number of connection-serving units that have been spawned and
\* have not ended never exceeds MAX_CONNECTIONS.
C1_LiveUnitsAtMostCeiling == Cardinality(Live) <= MAX_CONNECTIONS

\* The pool is exhausted: every permit is owned by a live unit and the
\* accept loop is suspended at line 38.
C1_Witness_AtCeiling ==
    /\ Cardinality(Live) = MAX_CONNECTIONS
    /\ permits = 0
    /\ lpc = "acquire"
    /\ mainpc = "select"

\* After the termination signal no unit is spawned.
C2_NoAcceptAfterSignal ==
    [][mainpc # "select" => \A u \in Units : unit[u] = "none" => unit'[u] = "none"]_vars

\* main has passed shutdown_complete_rx.recv only if no unit is running.
C2_MainWaitsForUnits ==
    mainpc \in {"returned", "exited"} => Live = {}

\* C2: after the termination signal no further connection is accepted, and
\* main does not pass shutdown_complete_rx.recv and return while a spawned
\* unit is still running.
C2_GracefulDrain ==
    /\ C2_NoAcceptAfterSignal
    /\ []C2_MainWaitsForUnits

\* What one step does to the pool: a unit ends only after its select is
\* over, a unit inside its select stays, and the pool grows by exactly one
\* permit per unit ended (and per permit the accept loop gives up).
C3_StepReleasesOnce ==
    LET ended == {u \in Units : unit[u] # "none" /\ unit'[u] = "none"}
        loopdrop == IF LoopHoldsPermit /\ lpc' \in {"failed", "dropped"} THEN 1 ELSE 0
        looptake == IF lpc = "acquire" /\ lpc' = "accept" THEN 1 ELSE 0
    IN  /\ \A u \in ended : unit[u] \in {"resolved", "panicked"}
        /\ \A u \in Units : unit[u] = "resolved" => uend[u] \in {"ok", "err", "cancel"}
        /\ \A u \in Units : unit[u] \in {"serve", "call", "run"} => unit'[u] # "none"
        /\ permits' = permits + Cardinality(ended) + loopdrop - looptake

\* C3: a unit owns its permit from its spawn to its end; the permit goes
\* back to the pool exactly once, in the step that ends the unit, and that
\* step comes only after the unit's select is over (exchange ended with Ok
\* or with a transport error, or cancellation observed).
C3_PermitHeldUntilResolved ==
    /\ [](permits + Cardinality(Live) <= MAX_CONNECTIONS)
    /\ [][C3_StepReleasesOnce]_vars

\* Two units whose selects have resolved, one by cancellation and one by a
\* transport error, each still owning its permit.
C3_Witness_ResolvedBothWays ==
    \E u, v \in Units :
        /\ unit[u] = "resolved" /\ uend[u] = "cancel"
        /\ unit[v] = "resolved" /\ uend[v] = "err"
        /\ permits + Cardinality(Live) <= MAX_CONNECTIONS

\* C4: once shutdown is triggered the accept loop takes no further step and
\* every unit in flight at that moment eventually observes cancellation (or
\* the end of its exchange), ends and releases its permit.
C4_ShutdownEndsEveryUnit ==
    /\ [][mainpc # "select" => lpc' = lpc]_vars
    /\ (mainpc # "select") ~> (Live = {} /\ permits = MAX_CONNECTIONS)

\* The delays the claim names.
BackoffSchedule == <<1, 2, 4, 8, 16, 32, 64>>

\* The delays slept so far are a prefix of the schedule, backoff is the
\* next delay, and the call failed only after the whole schedule.
C5_State ==
    /\ Len(delays) <= Len(BackoffSchedule)
    /\ delays = SubSeq(BackoffSchedule, 1, Len(delays))
    /\ lpc = "accept" => backoff = 2 ^ Len(delays)
    /\ lpc = "sleep" => backoff = delays[Len(delays)]
    /\ lpc = "failed" => delays = BackoffSchedule /\ mainpc # "select"

\* A call of accept starts at 1, a success spawns a unit, and a fatal
\* failure is final.
C5_Step ==
    /\ lpc = "acquire" /\ lpc' = "accept" => backoff' = 1 /\ delays' = <<>>
    /\ lpc = "accept" /\ lpc' = "acquire" => Cardinality(Live') = Cardinality(Live) + 1
    /\ lpc = "failed" => lpc' = "failed"

\* C5: within one call of accept the delays are 1, 2, 4, 8, 16, 32, 64 in
\* that order; the failure after the 64-unit delay is fatal and ends the
\* accept loop; a success returns the socket and the next call starts at 1.
C5_BackoffSchedule ==
    /\ []C5_State
    /\ [][C5_Step]_vars

\* The eighth consecutive failure of one call of accept was fatal.
C5_Witness_Fatal ==
    /\ lpc = "failed"
    /\ delays = BackoffSchedule
    /\ backoff = 128

\* C6: at most one request holds the shared state; the holder is inside
\* ServiceHandler::run, and no unit holds the mutex while it is suspended
\* in its select, between two requests, or after its select resolved.
C6_MutualExclusion ==
    /\ Cardinality({u \in Units : unit[u] = "run"}) <= 1
    /\ \A u \in Units : unit[u] = "run" <=> holder = u
    /\ holder # 0 => unit[holder] = "run"

\* One request computes under the lock while another connection's request
\* is blocked at line 51.
C6_Witness_Contention ==
    \E u, v \in Units : unit[u] = "run" /\ holder = u /\ unit[v] = "call"

\* C7: a failure while serving one connection never terminates the accept
\* loop and never makes a request of another connection fail to acquire the
\* shared state.
C7_FailureContained ==
    /\ \A u \in Units : unit[u] = "panicked" => uend[u] = "own"
    /\ lpc = "failed" => delays = BackoffSchedule

(***************************************************************************)
(* The query engine's claims.                                              *)
(***************************************************************************)
\* The filtered and ordered sequence the last request's window is cut from.
QOrdered == Ordered(Filtered(qdata, qfilter), qfilter.order)

\* ceil(total / limit) for limit >= 1.
QTotalPage == (Len(QOrdered) + qfilter.limit - 1) \div qfilter.limit

\* C8: for limit >= 1 and page in 1..total_page the window is exactly the
\* elements at indices [(page-1)*limit, min(page*limit, total)), so that
\* the pages partition the sequence in order.
C8_PagesPartition ==
    (qout.called /\ qfilter.limit >= 1 /\ qfilter.page \in 1 .. QTotalPage) =>
        /\ ~qout.panicked
        /\ qout.data = SubSeq(QOrdered,
                              (qfilter.page - 1) * qfilter.limit + 1,
                              Min(qfilter.page * qfilter.limit, Len(QOrdered)))

\* C9: for a non-empty filtered sequence, limit >= 1 and page beyond
\* total_page, the window is the last page's, which is not empty.
C9_BeyondLastPageSnaps ==
    (qout.called /\ qfilter.limit >= 1 /\ Len(QOrdered) > 0 /\ qfilter.page > QTotalPage) =>
        /\ ~qout.panicked
        /\ qout.data # <<>>
        /\ qout.data = SubSeq(QOrdered, (QTotalPage - 1) * qfilter.limit + 1, Len(QOrdered))

\* C10: get_collection raises no error, whatever page and limit are,
\* page = 0, page beyond total_page and limit = 0 included.
C10_NoPanic == qout.called => ~qout.panicked

(***************************************************************************)
(* The loader's claims.                                                    *)
(***************************************************************************)
\* The events among the first n of the history that carry identifier i.
EventsWithId(i, n) == {k \in 1 .. n : raw[k].id = i}

\* The identifiers among the first n events of the history.
IdsOf(n) == {raw[k].id : k \in 1 .. n}

\* C11: when load_v1 has returned, total_count_raw is the number of input
\* events, total_count is the number of distinct identifiers and at most
\* total_count_raw, the table holds exactly one item per distinct
\* identifier, and each item's watch_count is the number of events that
\* carry its identifier.
C11_DedupCounts ==
    loadpc = "done" =>
        /\ qmeta.total_count_raw = Len(raw)
        /\ qmeta.total_count = Cardinality(IdsOf(Len(raw)))
        /\ qmeta.total_count <= qmeta.total_count_raw
        /\ Len(qdata) = qmeta.total_count
        /\ \A i \in IdsOf(Len(raw)) :
              Cardinality({k \in 1 .. Len(qdata) : qdata[k].id = i}) = 1
        /\ \A k \in 1 .. Len(qdata) :
              /\ qdata[k].id \in IdsOf(Len(raw))
              /\ qdata[k].watch_count = Cardinality(EventsWithId(qdata[k].id, Len(raw)))

\* Three events of two videos have been loaded: the repeated video is one
\* item counted twice.
C11_Witness_Deduplicated ==
    /\ loadpc = "done"
    /\ Len(raw) = 3
    /\ Len(qdata) = 2
    /\ \E k \in 1 .. Len(qdata) : qdata[k].watch_count = 2

\* An item's timeline is ascending, as long as its watch_count, and starts
\* at its watched_at, which is the least timestamp of the item's events
\* among the first n of the history.
TimelineOk(item, n) ==
    /\ \A a, b \in 1 .. Len(item.watch_timeline) :
          a < b => item.watch_timeline[a] <= item.watch_timeline[b]
    /\ Len(item.watch_timeline) = item.watch_count
    /\ \E a \in 1 .. Len(item.watch_timeline) : item.watch_timeline[a] = item.watched_at
    /\ \A a \in 1 .. Len(item.watch_timeline) : item.watched_at <= item.watch_timeline[a]
    /\ \E k \in EventsWithId(item.id, n) : raw[k].time = item.watched_at
    /\ \A k \in EventsWithId(item.id, n) : item.watched_at <= raw[k].time

\* C12: after each event is folded in, and in the table load_v1 returns,
\* every item's watch_timeline is sorted ascending, its length is
\* watch_count and its minimum is watched_at, whatever the order in which
\* the events arrive.
C12_TimelineSorted ==
    /\ \A i \in DOMAIN map : TimelineOk(map[i], folded)
    /\ loadpc = "done" => \A k \in 1 .. Len(qdata) : TimelineOk(qdata[k], Len(raw))

\* The loop is between two events, and an event folded in is older than an
\* event of the same video that arrived before it.
C12_Witness_LateEarlierEvent ==
    /\ loadpc = "fold"
    /\ folded < Len(raw)
    /\ \E a, b \in 1 .. folded :
          /\ a < b
          /\ raw[a].id = raw[b].id
          /\ raw[b].time < raw[a].time
          /\ map[raw[a].id].watch_timeline[1] = raw[b].time

(***************************************************************************)
(* The query engine's claims on tables built by load_v1.                   *)
(***************************************************************************)
\* C13: on a table built by load_v1, the items get_collection returns are
\* non-increasing in watched_at for Latest, non-decreasing in watched_at
\* for Oldest, non-increasing in watch_count for MostWatched and
\* non-decreasing in watch_count for LeastWatched.
C13_OrderCorrect ==
    (qout.called /\ ~qout.panicked) =>
        \A a, b \in 1 .. Len(qout.data) :
            a < b =>
                CASE qfilter.order = "latest" -> qout.data[a].watched_at >= qout.data[b].watched_at
                  [] qfilter.order = "oldest" -> qout.data[a].watched_at <= qout.data[b].watched_at
                  [] qfilter.order = "most_watched" -> qout.data[a].watch_count >= qout.data[b].watch_count
                  [] qfilter.order = "least_watched" -> qout.data[a].watch_count <= qout.data[b].watch_count

\* A page of three or more items, oldest first, whose first item is
\* strictly older than its last.
C13_Witness_OldestFirst ==
    /\ qout.called
    /\ ~qout.panicked
    /\ qfilter.order = "oldest"
    /\ Len(qout.data) >= 3
    /\ qout.data[1].watched_at < qout.data[Len(qout.data)].watched_at

\* The predicates of a filter request.
Predicates == {"id", "title", "channel_name", "from", "to"}

\* The set of the items of a sequence.
Range(s) == {s[k] : k \in 1 .. Len(s)}

\* C14: for the request G just answered and every request F that is G
\* without one of G's present predicates, the items matched by G are among
\* those matched by F, so G's matched count, and its total_page for the
\* same limit, are not larger than F's.
C14_FilterMonotone ==
    qout.called =>
        \A p \in Predicates :
            qfilter[p] # None =>
                LET F == [qfilter EXCEPT ![p] = None]
                    byG == Filtered(qdata, qfilter)
                    byF == Filtered(qdata, F)
                    outF == GetCollection(qdata, F)
                IN  /\ Range(byG) \subseteq Range(byF)
                    /\ Len(byG) <= Len(byF)
                    /\ TotalPage(Len(byG), qfilter.limit) <= TotalPage(Len(byF), F.limit)
                    /\ (~qout.panicked /\ ~outF.panicked) =>
                           qout.pagination.total_page <= outF.pagination.total_page

\* A request with two or more predicates, one of which cuts away items
\* that the others let through, while some items still match.
C14_Witness_PredicateCuts ==
    /\ qout.called
    /\ ~qout.panicked
    /\ Cardinality({p \in Predicates : qfilter[p] # None}) >= 2
    /\ Len(Filtered(qdata, qfilter)) >= 1
    /\ \E p \in Predicates :
          /\ qfilter[p] # None
          /\ Len(Filtered(qdata, [qfilter EXCEPT ![p] = None])) > Len(Filtered(qdata, qfilter))

(***************************************************************************)
(* The startup's claim.                                                    *)
(***************************************************************************)
\* The file cannot be ingested: it is missing, its extension is not json,
\* some marker key is nowhere in its text, or one of its records does not
\* decode.
Uningestible ==
    \/ ~file.is_file
    \/ file.extension # "json"
    \/ \E key \in V1Keys : \A k \in 1 .. Len(file.records) : key \notin file.records[k].keys
    \/ \E k \in 1 .. Len(file.records) : file.records[k].time = None

\* The listener has bound its port or accepted a connection.
Serving == lpc # "none" \/ Live # {} \/ mainpc \notin {"load", "youtube", "bind", "aborted"}

\* The table in the vault is one load_v1 builds from all of the file's
\* records.
WholeTableBuilt ==
    /\ \A k \in 1 .. Len(file.records) : file.records[k].time # None
    /\ qmeta.total_count_raw = Len(file.records)
    /\ [total_count_raw |-> qmeta.total_count_raw,
        total_count |-> qmeta.total_count,
        watch_timeline |-> qmeta.watch_timeline,
        data |-> qdata]
           \in LoadV1([k \in 1 .. Len(file.records) |->
                          [id |-> file.records[k].id, title |-> file.records[k].title,
                           channel |-> file.records[k].channel,
                           time |-> file.records[k].time[1]]])

\* C15: when the file is missing, has another extension than json, fails
\* the marker sniff or holds a record that does not decode, there is never
\* a table, not even of the valid records, main goes from the load only to
\* an abort with an error, and the listener never binds or accepts; and
\* whenever the listener is bound or serving, the whole table has been
\* built.
C15_AllOrNothing ==
    /\ Uningestible =>
          /\ qdata = <<>>
          /\ qmeta = NoMeta
          /\ ~Serving
          /\ mainpc \in {"load", "aborted"}
          /\ mainpc = "aborted" => starterr # "-"
    /\ Serving => (~Uningestible /\ WholeTableBuilt)

\* Startup has aborted on a file with a valid record and a record that
\* does not decode, and there is no table.
C15_Witness_OneBadRecord ==
    /\ mainpc = "aborted"
    /\ starterr = "decode"
    /\ \E k \in 1 .. Len(file.records) : file.records[k].time = None
    /\ \E k \in 1 .. Len(file.records) : file.records[k].time # None
    /\ qdata = <<>>

\* Two characters are the same letter, whatever their case.
SameLetter(c, d) == c = d \/ {c, d} = {"a", "A"} \/ {c, d} = {"b", "B"}

\* needle occurs in hay, letters compared without regard to case.
SubstringIgnoringCase(needle, hay) ==
    \E i \in 0 .. (Len(hay) - Len(needle)) :
        \A j \in 1 .. Len(needle) : SameLetter(hay[i + j], needle[j])

\* Every present predicate of the request holds of the item.
Passes(x, f) ==
    /\ f.id # None => x.id = f.id[1]
    /\ f.title # None => SubstringIgnoringCase(f.title[1], x.title)
    /\ f.channel_name # None => SubstringIgnoringCase(f.channel_name[1], x.channel.name)
    /\ f.from # None => x.watched_at > f.from[1]
    /\ f.to # None => x.watched_at < f.to[1]

\* C16: an item passes the filter iff every present predicate holds: id
\* equal, title and channel_name case-insensitive substrings, watched_at
\* strictly above from and strictly below to; with no predicate every item
\* passes.  Stated on the first page of a request whose limit exceeds the
\* table, where the items returned are all the items that pass.
C16_FilterSemantics ==
    (qout.called /\ ~qout.panicked /\ qfilter.page = 1 /\ qfilter.limit > Len(qdata)) =>
        /\ \A k \in 1 .. Len(qdata) :
              (qdata[k] \in Range(qout.data)) <=> Passes(qdata[k], qfilter)
        /\ Range(qout.data) \subseteq Range(qdata)
        /\ Skip(qfilter) => Range(qout.data) = Range(qdata)

\* A request with a title in another case than an item's and with both
\* bounds; an item at the lower bound is left out and an item above it is
\* returned.
C16_Witness_BoundExcluded ==
    /\ qout.called
    /\ ~qout.panicked
    /\ qfilter.page = 1
    /\ qfilter.limit > Len(qdata)
    /\ qfilter.from # None
    /\ qfilter.to # None
    /\ qfilter.title # None
    /\ \E k \in 1 .. Len(qdata) :
          /\ qdata[k].watched_at = qfilter.from[1]
          /\ qdata[k] \notin Range(qout.data)
    /\ \E k \in 1 .. Len(qout.data) :
          ~Contains(qout.data[k].title, qfilter.title[1])

(***************************************************************************)
(* The pagination's claims.                                                *)
(***************************************************************************)
\* The pages from a to b, in order.
Pages(a, b) == [i \in 1 .. (b - a + 1) |-> a + i - 1]

\* C17: with total_page at most 5 the window is the pages 1..total_page;
\* with more, it is five consecutive pages within [1, total_page]: the two
\* before and the two after current_page when those exist, the first five
\* when current_page is below 3, the last five when current_page + 2 is
\* beyond total_page; and a current_page within [1, total_page] is in the
\* window.
C17_PageWindow ==
    (qout.called /\ ~qout.panicked) =>
        LET cp == qout.pagination.current_page
            tp == qout.pagination.total_page
            w == qout.pagination.page_range
        IN  /\ tp <= 5 => w = Pages(1, tp)
            /\ tp > 5 =>
                  /\ Len(w) = 5
                  /\ \A i \in 1 .. 4 : w[i + 1] = w[i] + 1
                  /\ w[1] >= 1
                  /\ w[5] <= tp
                  /\ (cp - 2 >= 1 /\ cp + 2 <= tp) => w = Pages(cp - 2, cp + 2)
                  /\ cp - 2 < 1 => w = Pages(1, 5)
                  /\ cp + 2 > tp => w = Pages(tp - 4, tp)
            /\ (1 <= cp /\ cp <= tp) => cp \in Range(w)

\* The last of six pages: the window is shifted left to end at the last
\* page.
C17_Witness_ShiftedLeft ==
    /\ qout.called
    /\ ~qout.panicked
    /\ qout.pagination.total_page = 6
    /\ qout.pagination.current_page = 6
    /\ qout.pagination.page_range = <<2, 3, 4, 5, 6>>

\* C18: prev_page is present iff current_page - 1 lies in [1, total_page]
\* and is then current_page - 1; next_page is present iff current_page + 1
\* lies in [1, total_page] and is then current_page + 1; neither names a
\* page outside [1, total_page].
C18_PrevNextInRange ==
    (qout.called /\ ~qout.panicked) =>
        LET cp == qout.pagination.current_page
            tp == qout.pagination.total_page
            prev == qout.pagination.prev_page
            next == qout.pagination.next_page
        IN  /\ prev # None <=> (1 <= cp - 1 /\ cp - 1 <= tp)
            /\ prev # None => prev[1] = cp - 1
            /\ next # None <=> (1 <= cp + 1 /\ cp + 1 <= tp)
            /\ next # None => next[1] = cp + 1
            /\ \A p \in {prev, next} : p # None => (1 <= p[1] /\ p[1] <= tp)

\* The half of C18 that the code keeps: next_page.
C18_NextInRange ==
    (qout.called /\ ~qout.panicked) =>
        LET cp == qout.pagination.current_page
            tp == qout.pagination.total_page
            next == qout.pagination.next_page
        IN  /\ next # None <=> (1 <= cp + 1 /\ cp + 1 <= tp)
            /\ next # None => (next[1] = cp + 1 /\ 1 <= next[1] /\ next[1] <= tp)

(***************************************************************************)
(* The query engine's claims on ties and on the table.                     *)
(***************************************************************************)
\* The place of an item in the table.
Pos(x) == CHOOSE k \in 1 .. Len(qdata) : qdata[k] = x

\* The request just answered, with another order, asking for everything
\* it matches on one page.
WholePage(o) == [qfilter EXCEPT !.order = o, !.page = 1, !.limit = Len(qdata) + 1]

\* C19: among the returned items of equal watch_count, LeastWatched keeps
\* the table's order (watched_at descending) and MostWatched has the
\* reverse of the table's order (watched_at ascending); and what
\* MostWatched returns for a request is the reverse of what LeastWatched
\* returns for it.
C19_StableTieBreak ==
    (qout.called /\ ~qout.panicked) =>
        /\ qfilter.order = "least_watched" =>
              \A a, b \in 1 .. Len(qout.data) :
                  (a < b /\ qout.data[a].watch_count = qout.data[b].watch_count) =>
                      /\ Pos(qout.data[a]) < Pos(qout.data[b])
                      /\ qout.data[a].watched_at >= qout.data[b].watched_at
        /\ qfilter.order = "most_watched" =>
              \A a, b \in 1 .. Len(qout.data) :
                  (a < b /\ qout.data[a].watch_count = qout.data[b].watch_count) =>
                      /\ Pos(qout.data[a]) > Pos(qout.data[b])
                      /\ qout.data[a].watched_at <= qout.data[b].watched_at
        /\ GetCollection(qdata, WholePage("most_watched")).data
              = Reverse(GetCollection(qdata, WholePage("least_watched")).data)

\* MostWatched has returned three or more items, two of them with the
\* same watch_count and different watched_at.
C19_Witness_TieReversed ==
    /\ qout.called
    /\ ~qout.panicked
    /\ qfilter.order = "most_watched"
    /\ Len(qout.data) >= 3
    /\ \E a, b \in 1 .. Len(qout.data) :
          /\ a < b
          /\ qout.data[a].watch_count = qout.data[b].watch_count
          /\ qout.data[a].watched_at < qout.data[b].watched_at

\* The table in the vault is one load_v1 builds from the file read at
\* startup.
TableIsOfFile ==
    [total_count_raw |-> qmeta.total_count_raw,
     total_count |-> qmeta.total_count,
     watch_timeline |-> qmeta.watch_timeline,
     data |-> qdata] \in {res.table : res \in LoadMetadataFromFile(file)}

\* What get_collection has returned is what it returns for the request on
\* a table built at startup.
AnswerIsOfStartupTable ==
    qout.called =>
        \E res \in LoadMetadataFromFile(file) : qout = GetCollection(res.table.data, qfilter)

\* C20: no query changes the table: total_count_raw, total_count, the
\* global watch_timeline and the items, in contents and order, stay those
\* of the table built at startup, whatever the filter, order, page and
\* limit of the queries, and get_collection returns for a request what it
\* returns for it on the table built at startup.
C20_TableUnchanged ==
    /\ []TableIsOfFile
    /\ []AnswerIsOfStartupTable
    /\ [][qdata' = qdata /\ qmeta' = qmeta]_vars

\* A query has filtered, sorted and cut its answer, which starts with
\* another item than the table and is shorter than the table.
C20_Witness_SortedAndCut ==
    /\ qout.called
    /\ ~qout.panicked
    /\ qfilter.order = "most_watched"
    /\ qfilter.from # None
    /\ Len(qout.data) >= 1
    /\ Len(qout.data) < Len(qdata)
    /\ qout.data[1] # qdata[1]
    /\ TableIsOfFile

(***************************************************************************)
(* The loader's claim on the order of the input.                           *)
(***************************************************************************)
\* The table load_v1 has returned.
LoadedTable ==
    [total_count_raw |-> qmeta.total_count_raw,
     total_count |-> qmeta.total_count,
     watch_timeline |-> qmeta.watch_timeline,
     data |-> qdata]

\* The history in every order of arrival.
Rearranged(events) ==
    {[k \in 1 .. Len(events) |-> events[p[k]]] : p \in Permutations(1 .. Len(events))}

\* No two items of the returned table have the same watched_at.
NoEqualEarliest ==
    \A a, b \in 1 .. Len(qdata) : a # b => qdata[a].watched_at # qdata[b].watched_at

\* C21: when no two items have equal earliest timestamps, load_v1 returns
\* for every rearrangement of the history the table it has returned for
\* the history: the same counts, global timeline and items, in the same
\* order, with the same id, title, channel, watched_at, watch_count and
\* watch_timeline.
C21_OrderIndependent ==
    (loadpc = "done" /\ NoEqualEarliest) =>
        \A events \in Rearranged(raw) : LoadV1(events) = {LoadedTable}

\* A table without its items' titles and channels.
Untitled(t) ==
    [t EXCEPT !.data = [k \in 1 .. Len(t.data) |->
                           [id |-> t.data[k].id,
                            watched_at |-> t.data[k].watched_at,
                            watch_count |-> t.data[k].watch_count,
                            watch_timeline |-> t.data[k].watch_timeline]]]

\* What the code keeps of C21: but for the titles and channels, the table
\* does not depend on the order of arrival.
C21_OrderIndependentButTitles ==
    (loadpc = "done" /\ NoEqualEarliest) =>
        \A events \in Rearranged(raw) :
            {Untitled(t) : t \in LoadV1(events)} = {Untitled(LoadedTable)}

(***************************************************************************)
(* The listener's claims on the permits.                                   *)
(***************************************************************************)
\* Every permit is held by a serving unit.
PoolExhaustedByUnits == Cardinality(Live) = MAX_CONNECTIONS

\* A step of the accept loop and of the spawn: the loop enters accept only
\* by taking a free permit, a unit is spawned only out of accept, and while
\* the units hold every permit no unit is spawned and the loop stays where
\* it is suspended (or is dropped by the shutdown).
C22_Step ==
    /\ (lpc = "acquire" /\ lpc' = "accept") => (permits > 0 /\ permits' = permits - 1)
    /\ (lpc # "accept" /\ lpc' = "accept") => lpc \in {"acquire", "sleep"}
    /\ ~(Live' \subseteq Live) => lpc = "accept"
    /\ PoolExhaustedByUnits =>
          /\ Live' \subseteq Live
          /\ lpc' \in {lpc, "dropped"}

\* C22: the accept loop takes a permit before every accept; while the
\* serving units hold every permit the loop is suspended at the acquire and
\* no connection is accepted; and when a permit is free (a unit has ended
\* and released it) the suspended loop eventually takes it and goes on to
\* accept, as long as main polls the loop (shutdown drops it).
C22_BackpressureAndWakeup ==
    /\ [](PoolExhaustedByUnits => (permits = 0 /\ lpc \notin {"accept", "sleep"}))
    /\ [][C22_Step]_vars
    /\ (RunPolled /\ lpc = "acquire" /\ permits > 0) ~> (lpc = "accept" \/ ~RunPolled)

\* The pool was exhausted (the second unit was spawned while the first was
\* alive), the first unit has ended, and the loop has taken the permit it
\* released and is in accept.
C22_Witness_WokenAfterRelease ==
    /\ RunPolled
    /\ lpc = "accept"
    /\ permits = 0
    /\ unit[1] = "none"
    /\ Cardinality(Live) = MAX_CONNECTIONS - 1

\* The permits of a state: the free ones, the one the accept loop holds
\* between its acquire and the spawn, and one per live serving unit.
PermitsAccountedFor ==
    permits + (IF LoopHoldsPermit THEN 1 ELSE 0) + Cardinality(Live)

\* C23: in every reachable state the free permits, the permit held by the
\* accept loop while it waits in accept or in its backoff sleep, and the
\* permits held by the live serving units add up to the ceiling: no permit
\* is leaked or duplicated, also when accept fails fatally and when
\* shutdown drops the accept loop in the middle of an iteration.
C23_PermitsConserved == PermitsAccountedFor = MAX_CONNECTIONS

\* Shutdown has dropped the accept loop, or accept has failed fatally,
\* while a unit is still alive: the loop's permit is back in the pool.
C23_Witness_LoopPermitReturned ==
    /\ lpc \in {"dropped", "failed"}
    /\ Live # {}
    /\ permits = MAX_CONNECTIONS - Cardinality(Live)

(***************************************************************************)
(* The query engine's claim on the window bounds.                          *)
(***************************************************************************)
\* C24: for every filtered length, every page >= 0 and every limit >= 1,
\* the bounds get_collection computes satisfy 0 <= lower <= upper <= total,
\* the call returns, and the window returned is the elements between the
\* bounds: at most limit items, a contiguous slice of the filtered and
\* ordered sequence in its order.
C24_WindowBounds ==
    (qout.called /\ qfilter.limit >= 1) =>
        LET total == Len(QOrdered)
            page_offset == qfilter.page * qfilter.limit
            upper == RightBound(page_offset, total)
            lower == LeftBound(page_offset, qfilter.limit, total)
        IN  /\ 0 <= lower
            /\ lower <= upper
            /\ upper <= total
            /\ ~qout.panicked
            /\ Len(qout.data) = upper - lower
            /\ Len(qout.data) <= qfilter.limit
            /\ \A k \in 1 .. Len(qout.data) : qout.data[k] = QOrdered[lower + k]

\* A page beyond the last one of a sequence that is not a multiple of the
\* limit: the window is the short last page.
C24_Witness_ShortLastPage ==
    /\ qout.called
    /\ ~qout.panicked
    /\ qfilter.limit >= 2
    /\ qfilter.page * qfilter.limit > Len(QOrdered) + qfilter.limit
    /\ Len(QOrdered) > qfilter.limit
    /\ Len(qout.data) >= 1
    /\ Len(qout.data) < qfilter.limit

====
